---- MODULE Spec2Model ----
(***************************************************************************)
(* Model of clean_comments.py: the comment scanner remove_comments_swift,  *)
(* the per-file workflow process_file and the directory traversal of main. *)
(* Text is a sequence of one-character strings; the cursor i is 0-based as *)
(* in the source, so source[i] of the program is source[i + 1] here.       *)
(***************************************************************************)
EXTENDS Integers, Sequences, FiniteSets, TLC

VARIABLES
    source,               \* remove_comments_swift: the text being scanned
    i,                    \* cursor into source
    n,                    \* len(source)
    output,               \* characters emitted so far
    in_string,            \* inside "..."
    in_multiline,         \* inside """..."""
    in_line_comment,      \* inside //...
    block_comment_depth,  \* nesting depth of /*...*/
    pc,                   \* position of the program
    result,               \* value returned by the last call of the scanner
    prev,                 \* history: the scan locals before the last loop iteration
    construct,            \* history: the string or comment last opened in Code state
    nl_in_block,          \* history: newlines consumed inside a block comment
    argv,                 \* main: sys.argv
    fs,                   \* the file store: path -> text of the file
    pending,              \* main: files os.walk has not yielded yet
    log,                  \* lines printed so far
    opened_r,             \* history: paths opened for reading
    opened_w,             \* history: paths opened for writing
    orig,                 \* history: the file store when main started
    raised_in             \* history: the errors process_file raised, with their paths

scan_vars == <<source, i, n, output, in_string, in_multiline, in_line_comment,
               block_comment_depth>>
hist_vars == <<prev, construct, nl_in_block>>

main_vars == <<argv, fs, pending, log, opened_r, opened_w, orig, raised_in>>

vars == <<scan_vars, pc, result, hist_vars, main_vars>>

\* ------------------------------------------------------------ characters
QUOTE == "\""
BSLASH == "\\"
NL == "\n"
SLASH == "/"
STAR == "*"
LETTER == "a"

Alphabet == {QUOTE, BSLASH, NL, SLASH, STAR, LETTER}

TripleQuote == <<QUOTE, QUOTE, QUOTE>>
LineOpen == <<SLASH, SLASH>>
BlockOpen == <<SLASH, STAR>>
BlockClose == <<STAR, SLASH>>

\* ---------------------------------------------------------------- bounds
MaxTokens == 4
MaxDelimiters == 7
MaxSwiftFiles == 2
MaxLiveTokens == 3

\* The pieces inputs are built from: every character of the alphabet and the
\* multi-character delimiters the scanner looks for.
Tokens == {<<c>> : c \in Alphabet} \cup {TripleQuote, LineOpen, BlockOpen, BlockClose}

\* Every text made of at most k tokens.
RECURSIVE TokenStrings(_, _)
TokenStrings(tokens, k) ==
    IF k = 0
    THEN {<<>>}
    ELSE LET shorter == TokenStrings(tokens, k - 1)
         IN  shorter \cup {s \o t : s \in shorter, t \in tokens}

Inputs(k) == TokenStrings(Tokens, k)

\* ------------------------------------------------ remove_comments_swift
\* str.startswith(prefix, k): never raises, false when the prefix does not fit.
StartsWith(s, prefix, k) ==
    /\ k + Len(prefix) <= Len(s)
    /\ SubSeq(s, k + 1, k + Len(prefix)) = prefix

\* Mutant: lines 10-13 missing and the four flags kept at module level, a call
\* starts with the flags the call before it ended with.
ScanInit_KeepsFlags(s) ==
    [source |-> s, i |-> 0, n |-> Len(s), output |-> <<>>,
     in_string |-> in_string, in_multiline |-> in_multiline,
     in_line_comment |-> in_line_comment,
     block_comment_depth |-> block_comment_depth, raised |-> FALSE]

\* The locals of one call, right after lines 5-13.
ScanInit(s) ==
    [source |-> s, i |-> 0, n |-> Len(s), output |-> <<>>,
     in_string |-> FALSE, in_multiline |-> FALSE, in_line_comment |-> FALSE,
     block_comment_depth |-> 0, raised |-> FALSE]

\* output.append(source[k]); source[k] raises IndexError when k is outside.
AppendAt(st, k) ==
    IF k < st.n
    THEN [st EXCEPT !.output = Append(@, st.source[k + 1])]
    ELSE [st EXCEPT !.raised = TRUE]

Advance(st, d) == [st EXCEPT !.i = @ + d]

\* Mutant: line 24 missing, the escaped character is skipped but not emitted.
InStringStep_SkipEscaped(st) ==
    LET c == st.source[st.i + 1]
        a == AppendAt(st, st.i)
    IN  IF c = BSLASH
        THEN IF a.i + 1 < a.n THEN Advance(a, 2) ELSE Advance(a, 1)
        ELSE IF c = QUOTE
             THEN Advance([a EXCEPT !.in_string = FALSE], 1)
             ELSE Advance(a, 1)

\* Mutant: lines 21-24 missing, a backslash is an ordinary character.
InStringStep_NoEscape(st) ==
    LET c == st.source[st.i + 1]
        a == AppendAt(st, st.i)
    IN  IF c = QUOTE
        THEN Advance([a EXCEPT !.in_string = FALSE], 1)
        ELSE Advance(a, 1)

\* Mutant: the test of line 22 missing, the character after a backslash is
\* read even when there is none.
InStringStep_NoBoundCheck(st) ==
    LET c == st.source[st.i + 1]
        a == AppendAt(st, st.i)
    IN  IF c = BSLASH
        THEN Advance(AppendAt(Advance(a, 1), a.i + 1), 1)
        ELSE IF c = QUOTE
             THEN Advance([a EXCEPT !.in_string = FALSE], 1)
             ELSE Advance(a, 1)

\* Mutant: a newline ends a single-line string, as line 54 ends a comment.
InStringStep_NewlineEnds(st) ==
    LET c == st.source[st.i + 1]
        a == AppendAt(st, st.i)
    IN  IF c = BSLASH
        THEN IF a.i + 1 < a.n
             THEN Advance(AppendAt(Advance(a, 1), a.i + 1), 1)
             ELSE Advance(a, 1)
        ELSE IF c = QUOTE \/ c = NL
             THEN Advance([a EXCEPT !.in_string = FALSE], 1)
             ELSE Advance(a, 1)

\* Lines 19-28.
InStringStep(st) ==
    LET c == st.source[st.i + 1]
        a == AppendAt(st, st.i)
    IN  IF c = BSLASH
        THEN IF a.i + 1 < a.n
             THEN Advance(AppendAt(Advance(a, 1), a.i + 1), 1)
             ELSE Advance(a, 1)
        ELSE IF c = QUOTE
             THEN Advance([a EXCEPT !.in_string = FALSE], 1)
             ELSE Advance(a, 1)

\* Mutant: line 45 missing, the escaped character is skipped but not emitted.
InMultilineStep_SkipEscaped(st) ==
    IF StartsWith(st.source, TripleQuote, st.i)
    THEN Advance([st EXCEPT !.output = @ \o TripleQuote, !.in_multiline = FALSE], 3)
    ELSE IF st.source[st.i + 1] = BSLASH
         THEN LET a == AppendAt(st, st.i)
              IN  IF a.i + 1 < a.n THEN Advance(a, 2) ELSE Advance(a, 1)
         ELSE Advance(AppendAt(st, st.i), 1)

\* Mutant: lines 38-44 missing, a backslash is an ordinary character of a
\* multi-line string.
InMultilineStep_NoEscape(st) ==
    IF StartsWith(st.source, TripleQuote, st.i)
    THEN Advance([st EXCEPT !.output = @ \o TripleQuote, !.in_multiline = FALSE], 3)
    ELSE Advance(AppendAt(st, st.i), 1)

\* Lines 31-50.
InMultilineStep(st) ==
    IF StartsWith(st.source, TripleQuote, st.i)
    THEN Advance([st EXCEPT !.output = @ \o TripleQuote, !.in_multiline = FALSE], 3)
    ELSE IF st.source[st.i + 1] = BSLASH
         THEN LET a == AppendAt(st, st.i)
              IN  IF a.i + 1 < a.n
                  THEN Advance(AppendAt(Advance(a, 1), a.i + 1), 1)
                  ELSE Advance(a, 1)
         ELSE Advance(AppendAt(st, st.i), 1)

\* Mutant: line 55 missing, the newline is kept but the comment goes on.
InLineCommentStep_StaysOpen(st) ==
    IF st.source[st.i + 1] = NL
    THEN Advance(AppendAt(st, st.i), 1)
    ELSE Advance(st, 1)

\* Mutant: line 56 missing, the newline ends the comment and is dropped.
InLineCommentStep_DropNewline(st) ==
    IF st.source[st.i + 1] = NL
    THEN Advance([st EXCEPT !.in_line_comment = FALSE], 1)
    ELSE Advance(st, 1)

\* Lines 53-58.
InLineCommentStep(st) ==
    IF st.source[st.i + 1] = NL
    THEN Advance(AppendAt([st EXCEPT !.in_line_comment = FALSE], st.i), 1)
    ELSE Advance(st, 1)

\* Mutant: lines 62-64 missing, block comments do not nest.
InBlockCommentStep_NoNesting(st) ==
    IF StartsWith(st.source, BlockClose, st.i)
    THEN Advance([st EXCEPT !.block_comment_depth = @ - 1], 2)
    ELSE Advance(st, 1)

\* Mutant: a backslash inside a block comment escapes the character after it,
\* as lines 22-25 do inside a string.
InBlockCommentStep_Escapes(st) ==
    IF StartsWith(st.source, BlockOpen, st.i)
    THEN Advance([st EXCEPT !.block_comment_depth = @ + 1], 2)
    ELSE IF StartsWith(st.source, BlockClose, st.i)
         THEN Advance([st EXCEPT !.block_comment_depth = @ - 1], 2)
         ELSE IF st.source[st.i + 1] = BSLASH /\ st.i + 1 < st.n
              THEN Advance(st, 2)
              ELSE Advance(st, 1)

\* Lines 61-72.
InBlockCommentStep(st) ==
    IF StartsWith(st.source, BlockOpen, st.i)
    THEN Advance([st EXCEPT !.block_comment_depth = @ + 1], 2)
    ELSE IF StartsWith(st.source, BlockClose, st.i)
         THEN Advance([st EXCEPT !.block_comment_depth = @ - 1], 2)
         ELSE Advance(st, 1)

\* Mutant: line 85 missing, the opening quote of a string is not emitted.
CodeStep_NoQuoteEmit(st) ==
    IF StartsWith(st.source, TripleQuote, st.i)
    THEN Advance([st EXCEPT !.output = @ \o TripleQuote, !.in_multiline = TRUE], 3)
    ELSE IF st.source[st.i + 1] = QUOTE
         THEN Advance([st EXCEPT !.in_string = TRUE], 1)
         ELSE IF StartsWith(st.source, LineOpen, st.i)
              THEN Advance([st EXCEPT !.in_line_comment = TRUE], 2)
              ELSE IF StartsWith(st.source, BlockOpen, st.i)
                   THEN Advance([st EXCEPT !.block_comment_depth = 1], 2)
                   ELSE Advance(AppendAt(st, st.i), 1)

\* Mutant: line 79 also sets in_string, a triple quote opens both strings.
CodeStep_BothStrings(st) ==
    IF StartsWith(st.source, TripleQuote, st.i)
    THEN Advance([st EXCEPT !.output = @ \o TripleQuote, !.in_multiline = TRUE,
                            !.in_string = TRUE], 3)
    ELSE IF st.source[st.i + 1] = QUOTE
         THEN Advance([st EXCEPT !.output = Append(@, QUOTE), !.in_string = TRUE], 1)
         ELSE IF StartsWith(st.source, LineOpen, st.i)
              THEN Advance([st EXCEPT !.in_line_comment = TRUE], 2)
              ELSE IF StartsWith(st.source, BlockOpen, st.i)
                   THEN Advance([st EXCEPT !.block_comment_depth = 1], 2)
                   ELSE Advance(AppendAt(st, st.i), 1)

\* Mutant: the tests of lines 67-70 also made in Code state, a */ met at
\* depth 0 is consumed as a delimiter.
CodeStep_ClosesBlock(st) ==
    IF StartsWith(st.source, TripleQuote, st.i)
    THEN Advance([st EXCEPT !.output = @ \o TripleQuote, !.in_multiline = TRUE], 3)
    ELSE IF st.source[st.i + 1] = QUOTE
         THEN Advance([st EXCEPT !.output = Append(@, QUOTE), !.in_string = TRUE], 1)
         ELSE IF StartsWith(st.source, LineOpen, st.i)
              THEN Advance([st EXCEPT !.in_line_comment = TRUE], 2)
              ELSE IF StartsWith(st.source, BlockOpen, st.i)
                   THEN Advance([st EXCEPT !.block_comment_depth = 1], 2)
                   ELSE IF StartsWith(st.source, BlockClose, st.i)
                        THEN Advance([st EXCEPT !.block_comment_depth = @ - 1], 2)
                        ELSE Advance(AppendAt(st, st.i), 1)

\* Mutant: the test of line 84 made before the test of line 78.
CodeStep_QuoteFirst(st) ==
    IF st.source[st.i + 1] = QUOTE
    THEN Advance([st EXCEPT !.output = Append(@, QUOTE), !.in_string = TRUE], 1)
    ELSE IF StartsWith(st.source, TripleQuote, st.i)
         THEN Advance([st EXCEPT !.output = @ \o TripleQuote, !.in_multiline = TRUE], 3)
         ELSE IF StartsWith(st.source, LineOpen, st.i)
              THEN Advance([st EXCEPT !.in_line_comment = TRUE], 2)
              ELSE IF StartsWith(st.source, BlockOpen, st.i)
                   THEN Advance([st EXCEPT !.block_comment_depth = 1], 2)
                   ELSE Advance(AppendAt(st, st.i), 1)

\* Lines 77-104.
CodeStep(st) ==
    IF StartsWith(st.source, TripleQuote, st.i)
    THEN Advance([st EXCEPT !.output = @ \o TripleQuote, !.in_multiline = TRUE], 3)
    ELSE IF st.source[st.i + 1] = QUOTE
         THEN Advance([st EXCEPT !.output = Append(@, QUOTE), !.in_string = TRUE], 1)
         ELSE IF StartsWith(st.source, LineOpen, st.i)
              THEN Advance([st EXCEPT !.in_line_comment = TRUE], 2)
              ELSE IF StartsWith(st.source, BlockOpen, st.i)
                   THEN Advance([st EXCEPT !.block_comment_depth = 1], 2)
                   ELSE Advance(AppendAt(st, st.i), 1)

\* One iteration of the while loop, lines 16-104: the first test that holds
\* decides the branch, each branch ends in continue.
Iterate(st) ==
    IF st.in_string THEN InStringStep(st)
    ELSE IF st.in_multiline THEN InMultilineStep(st)
    ELSE IF st.in_line_comment THEN InLineCommentStep(st)
    ELSE IF st.block_comment_depth > 0 THEN InBlockCommentStep(st)
    ELSE CodeStep(st)

\* while i < n (line 15); an IndexError leaves the loop by propagating.
RECURSIVE ScanLoop(_)
ScanLoop(st) ==
    IF st.raised \/ ~(st.i < st.n) THEN st ELSE ScanLoop(Iterate(st))

IndexError == <<"IndexError">>

\* Lines 4-106: the joined output, or the error the call raises.
remove_comments_swift(s) ==
    LET st == ScanLoop(ScanInit(s))
    IN  IF st.raised THEN IndexError ELSE st.output

\* ------------------------------------------------------- scanner, stepwise
Locals ==
    [source |-> source, i |-> i, n |-> n, output |-> output,
     in_string |-> in_string, in_multiline |-> in_multiline,
     in_line_comment |-> in_line_comment,
     block_comment_depth |-> block_comment_depth, raised |-> pc = "raised"]

SetLocals(st) ==
    /\ source' = st.source
    /\ i' = st.i
    /\ n' = st.n
    /\ output' = st.output
    /\ in_string' = st.in_string
    /\ in_multiline' = st.in_multiline
    /\ in_line_comment' = st.in_line_comment
    /\ block_comment_depth' = st.block_comment_depth

\* The state the tests of lines 19, 31, 53 and 61 select, in that order.
State(st) ==
    IF st.in_string THEN "InString"
    ELSE IF st.in_multiline THEN "InMultilineString"
    ELSE IF st.in_line_comment THEN "InLineComment"
    ELSE IF st.block_comment_depth > 0 THEN "InBlockComment"
    ELSE "Code"

CountOf(c, s) == Cardinality({k \in 1..Len(s) : s[k] = c})

NoPrev == [ScanInit(<<>>) EXCEPT !.i = -1]
NoConstruct == [kind |-> "Code", at |-> -1, out |-> 0]

\* What the loop iteration from before to after opened, if anything.
Opened(before, after) ==
    IF State(before) = "Code" /\ State(after) # "Code"
    THEN [kind |-> State(after), at |-> before.i, out |-> Len(before.output)]
    ELSE construct

NewlinesInBlock(before, after) ==
    IF State(before) = "InBlockComment"
    THEN CountOf(NL, SubSeq(before.source, before.i + 1, after.i))
    ELSE 0

\* No traversal is running.
MainIdle ==
    /\ argv = <<>>
    /\ fs = <<>>
    /\ pending = {}
    /\ log = <<>>
    /\ opened_r = {}
    /\ opened_w = {}
    /\ orig = <<>>
    /\ raised_in = {}

\* A call remove_comments_swift(s) has run lines 5-13, s of at most k tokens.
ScanStart(k) ==
    \E s \in Inputs(k) :
        /\ source = s
        /\ i = 0
        /\ n = Len(s)
        /\ output = <<>>
        /\ in_string = FALSE
        /\ in_multiline = FALSE
        /\ in_line_comment = FALSE
        /\ block_comment_depth = 0
        /\ pc = "loop"
        /\ result = <<>>
        /\ prev = NoPrev
        /\ construct = NoConstruct
        /\ nl_in_block = 0
        /\ MainIdle

\* Lines 15-104, one iteration.
LoopIteration ==
    /\ pc = "loop"
    /\ i < n
    /\ LET st == Iterate(Locals)
       IN  /\ SetLocals(st)
           /\ pc' = IF st.raised THEN "raised" ELSE "loop"
           /\ construct' = Opened(Locals, st)
           /\ nl_in_block' = nl_in_block + NewlinesInBlock(Locals, st)
    /\ prev' = Locals
    /\ UNCHANGED <<result, main_vars>>

\* Line 106, reached when the loop test fails.
Return ==
    /\ pc = "loop"
    /\ ~(i < n)
    /\ result' = output
    /\ pc' = "returned"
    /\ UNCHANGED <<scan_vars, hist_vars, main_vars>>

ScanNext == LoopIteration \/ Return

ScanInitState == ScanStart(MaxTokens)

ScanSpec == ScanInitState /\ [][ScanNext]_vars

\* ------------------------------------------------------------- claim helpers
Code(st) == State(st) = "Code"

\* The construct of the given kind is being scanned, or the last iteration left it.
Active(kind) == construct.kind = kind /\ State(Locals) = kind
JustLeft(kind) ==
    /\ construct.kind = kind
    /\ State(prev) = kind
    /\ State(Locals) # kind
    /\ pc # "raised"

\* Input consumed and output emitted since the opener of the construct (inclusive).
Consumed == SubSeq(source, construct.at + 1, i)
Emitted == SubSeq(output, construct.out + 1, Len(output))

\* Number of consecutive backslashes right before 0-based index k, not below lo.
RECURSIVE BackslashRun(_, _, _)
BackslashRun(s, k, lo) ==
    IF k - 1 >= lo /\ s[k] = BSLASH THEN 1 + BackslashRun(s, k - 1, lo) ELSE 0

\* The character at 0-based index k is a quote no backslash of the body escapes.
UnescapedQuote(s, k, lo) == s[k + 1] = QUOTE /\ BackslashRun(s, k, lo) % 2 = 0

\* Nesting depth at cursor target of the comment text starting at k with depth d,
\* reading /* and */ greedily from the left; -1 when target splits a delimiter.
RECURSIVE RefDepth(_, _, _, _)
RefDepth(s, k, d, target) ==
    IF k = target THEN d
    ELSE IF k > target THEN -1
    ELSE IF StartsWith(s, BlockOpen, k) THEN RefDepth(s, k + 2, d + 1, target)
    ELSE IF StartsWith(s, BlockClose, k) THEN RefDepth(s, k + 2, d - 1, target)
    ELSE RefDepth(s, k + 1, d, target)

NoCommentState == ~in_line_comment /\ block_comment_depth = 0

\* --------------------------------------------------------------------- C2
\* C2: a single-line string literal opened by a quote met in Code state is
\* emitted whole: from the opening quote through the first unescaped closing
\* quote the output grows by exactly the characters consumed, in order, and
\* no comment state is entered whatever the body contains.
C2_StringPreserved ==
    /\ (Code(prev) /\ prev.i >= 0 /\ source[prev.i + 1] = QUOTE
            /\ ~StartsWith(source, TripleQuote, prev.i))
        => /\ in_string
           /\ construct = [kind |-> "InString", at |-> prev.i, out |-> Len(prev.output)]
    /\ (Active("InString") \/ JustLeft("InString"))
        => /\ Emitted = Consumed
           /\ SubSeq(output, 1, construct.out) = SubSeq(prev.output, 1, construct.out)
           /\ NoCommentState
           /\ ~in_multiline
    /\ Active("InString")
        => \A k \in (construct.at + 1)..(i - 1) :
               ~UnescapedQuote(source, k, construct.at + 1)
    /\ JustLeft("InString")
        => /\ UnescapedQuote(source, i - 1, construct.at + 1)
           /\ \A k \in (construct.at + 1)..(i - 2) :
                  ~UnescapedQuote(source, k, construct.at + 1)
           /\ Code(Locals)

\* A closed string literal whose body held a comment opener.
C2_Witness ==
    /\ JustLeft("InString")
    /\ \E k \in (construct.at + 1)..(i - 2) :
           StartsWith(source, LineOpen, k) \/ StartsWith(source, BlockOpen, k)

\* --------------------------------------------------------------------- C3
\* C3: a block comment opened by /* in Code state is left exactly at the */
\* that brings the nesting depth back to 0; until then the depth is the
\* number of /* minus the number of */ read so far, nothing is emitted, and
\* after the matching */ the scanner is in Code state at the next character.
C3_NestedBlockComment ==
    /\ (Code(prev) /\ prev.i >= 0 /\ source[prev.i + 1] # QUOTE
            /\ ~StartsWith(source, LineOpen, prev.i)
            /\ StartsWith(source, BlockOpen, prev.i))
        => /\ block_comment_depth = 1
           /\ construct = [kind |-> "InBlockComment", at |-> prev.i,
                           out |-> Len(prev.output)]
    /\ (Active("InBlockComment") \/ JustLeft("InBlockComment"))
        => /\ Emitted = <<>>
           /\ output = prev.output
           /\ block_comment_depth = RefDepth(source, construct.at, 0, i)
    /\ Active("InBlockComment") => block_comment_depth >= 1
    /\ JustLeft("InBlockComment")
        => /\ Code(Locals)
           /\ StartsWith(source, BlockClose, i - 2)
           /\ prev.block_comment_depth = 1

\* A comment that nested to depth 2 is closed by its second */.
C3_Witness ==
    /\ JustLeft("InBlockComment")
    /\ \E k \in (construct.at + 2)..(i - 4) :
           RefDepth(source, construct.at, 0, k) = 2

\* --------------------------------------------------------------------- C4
\* C4: a // met in Code state opens a line comment; the // and every
\* character before the next newline are dropped, that newline is emitted,
\* and the scanner is in Code state right after it.
C4_LineCommentNewline ==
    /\ (Code(prev) /\ prev.i >= 0 /\ source[prev.i + 1] # QUOTE
            /\ StartsWith(source, LineOpen, prev.i))
        => /\ in_line_comment
           /\ construct = [kind |-> "InLineComment", at |-> prev.i,
                           out |-> Len(prev.output)]
    /\ Active("InLineComment")
        => /\ Emitted = <<>>
           /\ CountOf(NL, Consumed) = 0
    /\ JustLeft("InLineComment")
        => /\ Emitted = <<NL>>
           /\ source[i] = NL
           /\ CountOf(NL, SubSeq(source, construct.at + 1, i - 1)) = 0
           /\ Code(Locals)
           /\ i = prev.i + 1

\* A line comment with a body has ended at its newline.
C4_Witness ==
    /\ JustLeft("InLineComment")
    /\ i - construct.at >= 4

\* --------------------------------------------------------------------- C5
\* C5: when no newline was consumed inside a block comment, the returned
\* text has as many newlines as the input.
C5_LineCountStable ==
    (pc = "returned" /\ nl_in_block = 0)
        => CountOf(NL, result) = CountOf(NL, source)

\* A scan that removed a comment from an input with a newline, none of them
\* inside a block comment.
C5_Witness ==
    /\ pc = "returned"
    /\ nl_in_block = 0
    /\ CountOf(NL, source) >= 1
    /\ Len(result) < Len(source)

\* --------------------------------------------------------------------- C6
\* C6: in InString an iteration that starts at a backslash emits it together
\* with the next character, whatever that is, and stays in the string; a
\* backslash that ends the input is emitted alone and nothing is read past
\* the end.
C6_EscapeInString ==
    (State(prev) = "InString" /\ source[prev.i + 1] = BSLASH)
        => /\ pc # "raised"
           /\ in_string
           /\ IF prev.i + 1 < n
              THEN /\ i = prev.i + 2
                   /\ output = prev.output \o <<BSLASH, source[prev.i + 2]>>
              ELSE /\ i = n
                   /\ output = prev.output \o <<BSLASH>>

\* A quote right after a backslash was consumed inside a string.
C6_Witness ==
    /\ State(prev) = "InString"
    /\ source[prev.i + 1] = BSLASH
    /\ prev.i + 1 < n
    /\ source[prev.i + 2] = QUOTE
    /\ pc = "returned"

\* --------------------------------------------------------------------- C7
\* C7: from a triple quote met in Code state until InMultilineString is
\* left, the output grows by exactly the characters consumed, in order, and
\* no comment state is entered.
C7_MultilineVerbatim ==
    /\ (Code(prev) /\ prev.i >= 0 /\ StartsWith(source, TripleQuote, prev.i))
        => /\ in_multiline
           /\ construct = [kind |-> "InMultilineString", at |-> prev.i,
                           out |-> Len(prev.output)]
    /\ (Active("InMultilineString") \/ JustLeft("InMultilineString"))
        => /\ Emitted = Consumed
           /\ SubSeq(output, 1, construct.out) = SubSeq(prev.output, 1, construct.out)
           /\ NoCommentState
           /\ ~in_string
    /\ JustLeft("InMultilineString")
        => /\ Code(Locals)
           /\ StartsWith(source, TripleQuote, i - 3)

\* A multi-line string whose body held a comment opener has been closed.
C7_Witness ==
    /\ JustLeft("InMultilineString")
    /\ \E k \in (construct.at + 3)..(i - 4) :
           StartsWith(source, LineOpen, k) \/ StartsWith(source, BlockOpen, k)

\* --------------------------------------------------------------------- C8
\* The loop runs whenever its test holds (one thread, no blocking call).
ScanLive == ScanStart(MaxLiveTokens) /\ [][ScanNext]_vars /\ WF_vars(ScanNext)

CursorInvariant ==
    /\ pc # "raised"
    /\ n = Len(source)
    /\ 0 <= i /\ i <= n
    /\ prev.i >= 0 => (i - prev.i) \in 1..3
    /\ pc = "returned" => (i = n /\ result = output)

\* C8: every scan terminates: each iteration moves the cursor forward by 1, 2
\* or 3 without passing the end of the input, no read raises, and the call
\* returns its output with the cursor at the end, whatever state is active.
C8_TotalAndTerminates == []CursorInvariant /\ <>(pc = "returned")

\* A scan returned while a string or comment was still open.
C8_Witness ==
    /\ pc = "returned"
    /\ State(Locals) # "Code"

\* ------------------------------------------------- the scanner, applied twice
\* Inputs made of delimiters only: quotes and comment openers and closers.
DelimiterTokens == {<<QUOTE>>, TripleQuote, LineOpen, BlockOpen, BlockClose}

DelimiterStrings(k) == TokenStrings(DelimiterTokens, k)

\* Line 112 is about to run on a text.
CleanInit ==
    /\ source \in DelimiterStrings(MaxDelimiters)
    /\ pc = "call"
    /\ result = <<>>
    /\ i = 0
    /\ n = 0
    /\ output = <<>>
    /\ in_string = FALSE
    /\ in_multiline = FALSE
    /\ in_line_comment = FALSE
    /\ block_comment_depth = 0
    /\ prev = NoPrev
    /\ construct = NoConstruct
    /\ nl_in_block = 0
    /\ MainIdle

\* Line 112: new_content = remove_comments_swift(content).
Clean ==
    /\ pc = "call"
    /\ result' = remove_comments_swift(source)
    /\ pc' = "cleaned"
    /\ UNCHANGED <<scan_vars, hist_vars, main_vars>>

\* Line 112 of a second run, on the text the first run produced.
CleanAgain ==
    /\ pc = "cleaned"
    /\ source' = result
    /\ result' = remove_comments_swift(result)
    /\ pc' = "recleaned"
    /\ UNCHANGED <<i, n, output, in_string, in_multiline, in_line_comment,
                   block_comment_depth, hist_vars, main_vars>>

CleanNext == Clean \/ CleanAgain

CleanSpec == CleanInit /\ [][CleanNext]_vars

\* --------------------------------------------------------------------- C1
\* C1: scanning the already-cleaned text gives the same text again:
\* remove_comments_swift(remove_comments_swift(s)) = remove_comments_swift(s).
C1_Idempotent == pc = "recleaned" => result = source

\* ------------------------------------------------------ process_file and main
RootDir == <<"root">>
SubDir == <<"root", "sub">>
OtherDir == <<"other">>

\* Line 129. A file name is a sequence of pieces, each a "." or a run of
\* characters without a dot.
extensions == {<<".", "swift">>}

\* Mutant: the extension is cut at the last dot even when only dots precede
\* it, so the hidden file ".swift" has the extension ".swift".
splitext_LastDot(filename) ==
    LET dots == {k \in 1..Len(filename) : filename[k] = "."}
        last == IF dots = {} THEN 0 ELSE CHOOSE k \in dots : \A j \in dots : j <= k
    IN  IF last > 0 THEN SubSeq(filename, last, Len(filename)) ELSE <<>>

\* os.path.splitext(filename)[1]: the name from its last dot on, or nothing
\* when there is no dot or only dots come before the last one.
splitext(filename) ==
    LET dots == {k \in 1..Len(filename) : filename[k] = "."}
        last == IF dots = {} THEN 0 ELSE CHOOSE k \in dots : \A j \in dots : j <= k
    IN  IF last > 0 /\ \E j \in 1..(last - 1) : filename[j] # "."
        THEN SubSeq(filename, last, Len(filename))
        ELSE <<>>

SwiftFiles ==
    {[dir |-> IF k % 2 = 1 THEN RootDir ELSE SubDir,
      name |-> <<ToString(k), ".", "swift">>] : k \in 1..MaxSwiftFiles}

OtherFiles ==
    {[dir |-> RootDir, name |-> <<"notes", ".", "txt">>],
     [dir |-> RootDir, name |-> <<".", "swift">>],
     [dir |-> SubDir, name |-> <<"x", ".", "swift", ".", "bak">>],
     [dir |-> OtherDir, name |-> <<"y", ".", "swift">>]}

AllFiles == SwiftFiles \cup OtherFiles

\* Texts of files: a line comment after code, a string left open that holds
\* a comment opener, and a block comment left open.
CommentedText == <<LETTER, SLASH, SLASH, LETTER, NL>>
OpenStringText == <<QUOTE, SLASH, SLASH>>
OpenBlockText == <<LETTER, SLASH, STAR, LETTER>>

SampleTexts == {CommentedText, OpenStringText, OpenBlockText}

\* The files os.walk(root_dir) yields: those in root_dir or a directory below.
UnderRoot(f, root_dir) ==
    /\ Len(root_dir) <= Len(f.dir)
    /\ SubSeq(f.dir, 1, Len(root_dir)) = root_dir

\* os.walk is top-down: a directory's files come before those of directories
\* below it; within a directory the order is the listing's.
WalkNext(f) == \A g \in pending : Len(f.dir) <= Len(g.dir)

\* What goes wrong in one call of process_file: nothing, the open or read of
\* lines 109-110, the open of line 116, or the write of line 117 after
\* `written` characters reached the file.
Faults ==
    [kind : {"none", "read", "open_w"}, written : {0}]
        \cup [kind : {"write"}, written : 0..Len(CommentedText)]

Outcome(files, lines, rd, wr, err) ==
    [fs |-> files, log |-> lines, opened_r |-> rd, opened_w |-> wr, raised |-> err]

\* Mutant: the test of line 114 missing, every file is written back.
process_file_AlwaysWrites(file_path, fault) ==
    IF fault.kind = "read"
    THEN Outcome(fs, log, opened_r \cup {file_path}, opened_w, "read")
    ELSE LET content == fs[file_path]
             new_content == remove_comments_swift(content)
             cleaning == Append(log, [kind |-> "Cleaning", path |-> file_path])
             rd == opened_r \cup {file_path}
             wr == opened_w \cup {file_path}
         IN  IF new_content = IndexError
             THEN Outcome(fs, log, rd, opened_w, "IndexError")
             ELSE IF fault.kind = "open_w"
                  THEN Outcome(fs, cleaning, rd, wr, "open_w")
                  ELSE IF fault.kind = "write"
                       THEN Outcome([fs EXCEPT ![file_path] =
                                        SubSeq(new_content, 1, fault.written)],
                                    cleaning, rd, wr, "write")
                       ELSE Outcome([fs EXCEPT ![file_path] = new_content],
                                    cleaning, rd, wr, "")

\* Lines 108-119. open(..., 'w') empties the file before anything is written.
process_file(file_path, fault) ==
    IF fault.kind = "read"
    THEN Outcome(fs, log, opened_r \cup {file_path}, opened_w, "read")
    ELSE LET content == fs[file_path]
             new_content == remove_comments_swift(content)
             cleaning == Append(log, [kind |-> "Cleaning", path |-> file_path])
             rd == opened_r \cup {file_path}
             wr == opened_w \cup {file_path}
         IN  IF new_content = IndexError
             THEN Outcome(fs, log, rd, opened_w, "IndexError")
             ELSE IF new_content # content
                  THEN IF fault.kind = "open_w"
                       THEN Outcome(fs, cleaning, rd, wr, "open_w")
                       ELSE IF fault.kind = "write"
                            THEN Outcome([fs EXCEPT ![file_path] =
                                             SubSeq(new_content, 1, fault.written)],
                                         cleaning, rd, wr, "write")
                            ELSE Outcome([fs EXCEPT ![file_path] = new_content],
                                         cleaning, rd, wr, "")
                  ELSE Outcome(fs, Append(log, [kind |-> "NoComments",
                                                path |-> file_path]),
                               rd, opened_w, "")

\* The fault can happen in this call: a write fault needs a write, and no more
\* characters reach the file than are written.
Applicable(file_path, fault) ==
    LET new_content == remove_comments_swift(fs[file_path])
    IN  fault.kind \in {"open_w", "write"}
            => /\ new_content # fs[file_path]
               /\ fault.written <= Len(new_content)

\* Mutant: no try/except around the call, the error leaves main.
TryProcess_NoCatch(full_path, fault) == process_file(full_path, fault)

\* Lines 136-139.
TryProcess(full_path, fault) ==
    LET r == process_file(full_path, fault)
    IN  IF r.raised # ""
        THEN [r EXCEPT !.log = Append(@, [kind |-> "Error", path |-> full_path,
                                          err |-> r.raised]),
                       !.raised = ""]
        ELSE r

ScanIdle ==
    /\ source = <<>>
    /\ i = 0
    /\ n = 0
    /\ output = <<>>
    /\ in_string = FALSE
    /\ in_multiline = FALSE
    /\ in_line_comment = FALSE
    /\ block_comment_depth = 0
    /\ result = <<>>
    /\ prev = NoPrev
    /\ construct = NoConstruct
    /\ nl_in_block = 0

\* The command starts, with or without its argument, over a file store.
MainInit ==
    /\ ScanIdle
    /\ pc = "start"
    /\ argv \in {<<"clean_comments.py">>, <<"clean_comments.py", RootDir>>}
    /\ \E texts \in [SwiftFiles -> SampleTexts] :
           fs = [f \in AllFiles |->
                    IF f \in SwiftFiles THEN texts[f] ELSE CommentedText]
    /\ orig = fs
    /\ pending = {}
    /\ log = <<>>
    /\ opened_r = {}
    /\ opened_w = {}
    /\ raised_in = {}

\* Lines 122-124.
Usage ==
    /\ pc = "start"
    /\ Len(argv) < 2
    /\ log' = Append(log, [kind |-> "Usage", path |-> <<>>])
    /\ pc' = "exit1"
    /\ UNCHANGED <<scan_vars, result, hist_vars, argv, fs, pending, opened_r,
                   opened_w, orig, raised_in>>

\* Lines 126-131.
StartWalk ==
    /\ pc = "start"
    /\ ~(Len(argv) < 2)
    /\ pending' = {f \in DOMAIN fs : UnderRoot(f, argv[2])}
    /\ pc' = "walk"
    /\ UNCHANGED <<scan_vars, result, hist_vars, argv, fs, log, opened_r,
                   opened_w, orig, raised_in>>

\* Lines 132-134, a file whose extension is not in the list.
SkipFile ==
    /\ pc = "walk"
    /\ \E f \in pending :
           /\ WalkNext(f)
           /\ splitext(f.name) \notin extensions
           /\ pending' = pending \ {f}
    /\ UNCHANGED <<scan_vars, result, hist_vars, argv, fs, log, opened_r,
                   opened_w, orig, raised_in, pc>>

\* The call of line 112, made unless the read failed: the scanner's locals
\* are those the call ends with, prev those it started with.
Scanned(content, fault) ==
    IF fault.kind = "read"
    THEN UNCHANGED <<scan_vars, result, prev>>
    ELSE LET st == ScanLoop(ScanInit(content))
         IN  /\ SetLocals(st)
             /\ result' = remove_comments_swift(content)
             /\ prev' = ScanInit(content)

\* Lines 132-139, a file whose extension is in the list.
VisitFile ==
    /\ pc = "walk"
    /\ \E f \in pending, fault \in Faults :
           /\ WalkNext(f)
           /\ splitext(f.name) \in extensions
           /\ Applicable(f, fault)
           /\ LET r == TryProcess(f, fault)
                  err == process_file(f, fault).raised
              IN  /\ fs' = r.fs
                  /\ log' = r.log
                  /\ opened_r' = r.opened_r
                  /\ opened_w' = r.opened_w
                  /\ pc' = IF r.raised # "" THEN "crashed" ELSE "walk"
                  /\ raised_in' = IF err # ""
                                  THEN raised_in \cup {[path |-> f, err |-> err]}
                                  ELSE raised_in
           /\ Scanned(fs[f], fault)
           /\ pending' = pending \ {f}
    /\ UNCHANGED <<construct, nl_in_block, argv, orig>>

\* The loop of line 131 is exhausted and main returns.
Finish ==
    /\ pc = "walk"
    /\ pending = {}
    /\ pc' = "exit0"
    /\ UNCHANGED <<scan_vars, result, hist_vars, main_vars>>

Next == Usage \/ StartWalk \/ SkipFile \/ VisitFile \/ Finish

Spec == MainInit /\ [][Next]_vars

\* ------------------------------------------------------------- claim helpers
\* The scan from st reaches a comment state.
RECURSIVE EntersComment(_)
EntersComment(st) ==
    IF st.raised \/ ~(st.i < st.n)
    THEN FALSE
    ELSE LET nx == Iterate(st)
         IN  \/ State(nx) \in {"InLineComment", "InBlockComment"}
             \/ EntersComment(nx)

HasComment(text) == EntersComment(ScanInit(text))

\* The files the traversal selects: under the root, extension in the list.
Matched ==
    {f \in DOMAIN orig : UnderRoot(f, RootDir) /\ splitext(f.name) \in extensions}

Reported(kind, f) == \E k \in 1..Len(log) : log[k].kind = kind /\ log[k].path = f

\* --------------------------------------------------------------------- C9
\* C9: a file is opened for writing only when the scanner's output differs
\* from the content read from it; a file whose content has no comment is
\* never opened for writing and keeps its content.
C9_WriteGate ==
    /\ \A f \in opened_w : remove_comments_swift(orig[f]) # orig[f]
    /\ \A f \in DOMAIN fs :
           ~HasComment(orig[f]) => (f \notin opened_w /\ fs[f] = orig[f])

\* A traversal ended that read a comment-free file and wrote another file.
C9_Witness ==
    /\ pc = "exit0"
    /\ \E f \in opened_r : ~HasComment(orig[f]) /\ Reported("NoComments", f)
    /\ opened_w # {}

\* -------------------------------------------------------------------- C10
\* C10: an error raised while reading or writing a matched file is reported
\* with its path and does not leave main; every matched file the walk has
\* yielded has been processed, and at the end every matched file without an
\* error holds the scanner's output for its own content and has its status.
C10_ErrorRecovery ==
    /\ pc # "crashed"
    /\ \A e \in raised_in :
           \E k \in 1..Len(log) :
               log[k] = [kind |-> "Error", path |-> e.path, err |-> e.err]
    /\ pc = "walk" => (Matched \ pending) \subseteq opened_r
    /\ pc = "exit0"
        => \A f \in Matched :
               /\ f \in opened_r
               /\ ~Reported("Error", f)
                   => /\ fs[f] = remove_comments_swift(orig[f])
                      /\ IF fs[f] = orig[f]
                         THEN Reported("NoComments", f) /\ ~Reported("Cleaning", f)
                         ELSE Reported("Cleaning", f) /\ ~Reported("NoComments", f)

\* A traversal ended in which an error for one file was followed by the
\* cleaning of another.
C10_Witness ==
    /\ pc = "exit0"
    /\ \E j, k \in 1..Len(log) :
           /\ j < k
           /\ log[j].kind = "Error"
           /\ log[k].kind = "Cleaning"
           /\ log[k].path # log[j].path
           /\ fs[log[k].path] = remove_comments_swift(orig[log[k].path])
           /\ fs[log[k].path] # orig[log[k].path]

\* -------------------------------------------------------------------- C11
StatusLines(f) == {k \in 1..Len(log) : log[k].path = f}

\* C11: when the traversal ends every matched file has exactly one status
\* line; a file is reported as cleaned only when it holds the scanner's
\* output for its content, and a file whose read or write raised is reported
\* as an error only.
C11_OneStatus ==
    pc = "exit0"
        => \A f \in Matched :
               /\ Cardinality(StatusLines(f)) = 1
               /\ \A k \in StatusLines(f) :
                      log[k].kind \in {"Cleaning", "NoComments", "Error"}
               /\ Reported("Cleaning", f)
                      => (f \in opened_w /\ fs[f] = remove_comments_swift(orig[f]))
               /\ (\E e \in raised_in : e.path = f)
                      => \A k \in StatusLines(f) : log[k].kind = "Error"

\* -------------------------------------------------------------------- C12
\* A name that ends in ".swift" after a stem that is not only dots.
AllowedName(name) ==
    /\ Len(name) >= 3
    /\ name[Len(name) - 1] = "."
    /\ name[Len(name)] = "swift"
    /\ \E j \in 1..(Len(name) - 2) : name[j] # "."

Selected == {f \in DOMAIN orig : UnderRoot(f, RootDir) /\ AllowedName(f.name)}

\* C12: only files under the root with an allowed extension are opened or
\* reported; every other file keeps its content; when the traversal ends
\* every file under the root with an allowed extension has been opened.
C12_ExtensionFilter ==
    /\ (opened_r \cup opened_w) \subseteq Selected
    /\ \A f \in DOMAIN fs \ Selected : fs[f] = orig[f]
    /\ \A k \in 1..Len(log) : log[k].kind # "Usage" => log[k].path \in Selected
    /\ pc = "exit0" => Selected \subseteq opened_r

\* A traversal ended that rewrote a selected file and passed over a file
\* under the root that holds a comment.
C12_Witness ==
    /\ pc = "exit0"
    /\ \E f \in Selected : fs[f] # orig[f]
    /\ \E f \in DOMAIN fs \ Selected :
           UnderRoot(f, RootDir) /\ HasComment(orig[f]) /\ fs[f] = orig[f]

\* ------------------------------------------------------------- claim helpers
\* The locals when the scan from st first has its cursor at target or beyond.
RECURSIVE RunTo(_, _)
RunTo(st, target) ==
    IF st.raised \/ ~(st.i < st.n) \/ st.i >= target
    THEN st
    ELSE RunTo(Iterate(st), target)

\* The loop is about to run an iteration in the given state at the given text.
At(state, text) ==
    /\ pc = "loop"
    /\ State(Locals) = state
    /\ StartsWith(source, text, i)

\* -------------------------------------------------------------------- C13
\* C13 as stated: in InMultilineString a backslash followed by a triple quote
\* does not protect it; the triple quote ends the string and the scanner is
\* in Code state right after it.
C13_EscapeUnprotected ==
    At("InMultilineString", <<BSLASH>> \o TripleQuote)
        => LET after == RunTo(Locals, i + 4)
           IN  after.i = i + 4 /\ State(after) = "Code"

\* C13 as amended: in InMultilineString a backslash followed by a triple
\* quote is emitted together with the first of the three quotes and the
\* string stays open; the two quotes left end the string only together with
\* a quote that follows them.
C13_EscapeTakesFirstQuote ==
    At("InMultilineString", <<BSLASH>> \o TripleQuote)
        => LET step == Iterate(Locals)
               after == RunTo(Locals, i + 4)
           IN  /\ step.i = i + 2
               /\ step.in_multiline
               /\ step.output = output \o <<BSLASH, QUOTE>>
               /\ ~step.raised
               /\ IF StartsWith(source, TripleQuote, i + 2)
                  THEN after.i = i + 5 /\ State(after) = "Code"
                  ELSE after.i = i + 4 /\ State(after) = "InMultilineString"
               /\ SubSeq(after.output, Len(output) + 1, Len(after.output))
                      = SubSeq(source, i + 1, after.i)

\* A multi-line string is about to read a backslash followed by exactly
\* three quotes.
C13_Witness ==
    /\ At("InMultilineString", <<BSLASH>> \o TripleQuote)
    /\ ~StartsWith(source, TripleQuote, i + 2)


\* -------------------------------------------------------------------- C14
\* a can be obtained from b by removing characters.
RECURSIVE IsSubsequence(_, _)
IsSubsequence(a, b) ==
    IF a = <<>> THEN TRUE
    ELSE IF b = <<>> THEN FALSE
    ELSE IF Head(a) = Head(b) THEN IsSubsequence(Tail(a), Tail(b))
    ELSE IsSubsequence(a, Tail(b))

\* A comment opener is at 0-based index k of s.
OpenerAt(s, k) == StartsWith(s, LineOpen, k) \/ StartsWith(s, BlockOpen, k)
HasOpener(s) == \E k \in 0..(Len(s) - 1) : OpenerAt(s, k)

\* What the last iteration consumed.
Eaten == SubSeq(source, prev.i + 1, i)

\* C14: the output is the input with characters removed, nothing added or
\* reordered: an iteration in Code state (unless it reads a // or /* opener),
\* in InString or in InMultilineString appends exactly what it consumes, once;
\* output stays behind the input only in InLineComment, in InBlockComment or
\* at a comment opener; an input with no // and no /* is returned unchanged.
C14_DeletionOnly ==
    /\ IsSubsequence(output, SubSeq(source, 1, i))
    /\ prev.i >= 0
        => /\ i > prev.i
           /\ output \in {prev.output, prev.output \o Eaten}
           /\ State(prev) \in {"InString", "InMultilineString"}
                => output = prev.output \o Eaten
           /\ (Code(prev) /\ ~OpenerAt(source, prev.i))
                => output = prev.output \o Eaten
           /\ output # prev.output \o Eaten
                => \/ State(prev) \in {"InLineComment", "InBlockComment"}
                   \/ Code(prev) /\ OpenerAt(source, prev.i) /\ Len(Eaten) = 2
    /\ pc = "returned"
        => /\ result = output
           /\ IsSubsequence(result, source)
           /\ ~HasOpener(source) => result = source

\* A call returned an input that held a quote, a star and a comment with
\* the comment removed and the quote and the star kept.
C14_Witness ==
    /\ pc = "returned"
    /\ HasOpener(source)
    /\ Len(result) < Len(source)
    /\ \E k \in 1..Len(result) : result[k] = QUOTE
    /\ \E k \in 1..Len(result) : result[k] = STAR


\* -------------------------------------------------------------------- C15
\* The states whose flag holds.
Holding ==
    {s \in {"InString", "InMultilineString", "InLineComment", "InBlockComment"} :
        \/ s = "InString" /\ in_string
        \/ s = "InMultilineString" /\ in_multiline
        \/ s = "InLineComment" /\ in_line_comment
        \/ s = "InBlockComment" /\ block_comment_depth > 0}

\* C15: at every iteration of the scan loop at most one of in_string,
\* in_multiline, in_line_comment and block_comment_depth > 0 holds, so the
\* flags encode exactly one of the five states, Code when none holds.
C15_MutualExclusion ==
    /\ Cardinality(Holding) <= 1
    /\ Holding = (IF Code(Locals) THEN {} ELSE {State(Locals)})
    /\ block_comment_depth >= 0

\* A nested block comment is open after a string literal was closed.
C15_Witness ==
    /\ pc = "loop"
    /\ block_comment_depth = 2
    /\ \E k \in 1..Len(output) : output[k] = QUOTE


\* -------------------------------------------------------------------- C16
\* The depth moved as the claim allows in the last iteration: by +1 on /* and
\* by -1 on */ while positive, from 0 to 1 on /* in Code state, else not at all.
DepthStep ==
    LET d0 == prev.block_comment_depth
        d1 == block_comment_depth
    IN  /\ d1 - d0 \in {-1, 0, 1}
        /\ d1 = d0 + 1
             <=> /\ State(prev) \in {"Code", "InBlockComment"}
                 /\ StartsWith(source, BlockOpen, prev.i)
        /\ d1 = d0 - 1
             <=> /\ State(prev) = "InBlockComment"
                 /\ ~StartsWith(source, BlockOpen, prev.i)
                 /\ StartsWith(source, BlockClose, prev.i)
        /\ (d0 = 0 /\ d1 > 0) => Code(prev)
        /\ d1 # d0 => i = prev.i + 2 /\ output = prev.output

\* C16 as stated: the depth is never negative, becomes 1 only on /* in Code
\* state, moves by +1 on /* and -1 on */ only while positive, and a */ met in
\* Code state is emitted as two ordinary characters with the depth unchanged.
C16_CloseInCodeEmitted ==
    /\ block_comment_depth >= 0
    /\ prev.i >= 0 => DepthStep
    /\ At("Code", BlockClose)
        => LET after == RunTo(Locals, i + 2)
           IN  /\ after.i = i + 2
               /\ after.output = output \o BlockClose
               /\ after.block_comment_depth = block_comment_depth

\* C16 as amended: the depth is never negative, becomes 1 only on /* in Code
\* state, moves by +1 on /* and -1 on */ only while positive; a */ met in
\* Code state is no delimiter: its star is emitted with the depth unchanged
\* and its slash is scanned next on its own, emitted unless it begins a //
\* or a /* opener, which opens that comment.
C16_DepthDiscipline ==
    /\ block_comment_depth >= 0
    /\ prev.i >= 0 => DepthStep
    /\ At("Code", BlockClose)
        => LET step == Iterate(Locals)
               after == RunTo(Locals, i + 2)
           IN  /\ step.i = i + 1
               /\ step.output = Append(output, STAR)
               /\ step.block_comment_depth = 0
               /\ Code(step)
               /\ IF OpenerAt(source, i + 1)
                  THEN /\ after.i = i + 3
                       /\ after.output = Append(output, STAR)
                       /\ State(after) = (IF StartsWith(source, LineOpen, i + 1)
                                          THEN "InLineComment"
                                          ELSE "InBlockComment")
                       /\ after.block_comment_depth
                              = (IF StartsWith(source, LineOpen, i + 1) THEN 0 ELSE 1)
                  ELSE /\ after.i = i + 2
                       /\ after.output = output \o BlockClose
                       /\ Code(after)

\* The slash of a */ met in Code state has just opened a block comment.
C16_Witness ==
    /\ pc = "loop"
    /\ block_comment_depth = 1
    /\ Code(prev)
    /\ prev.i >= 1
    /\ StartsWith(source, BlockClose, prev.i - 1)
    /\ output # <<>>
    /\ output[Len(output)] = STAR


\* -------------------------------------------------------------------- C17
\* The last iteration ran in Code state.
FromCode == prev.i >= 0 /\ Code(prev)

\* C17: in Code state three quotes at the cursor are emitted together, the
\* cursor advances by 3 and the scanner is in InMultilineString, never in
\* InString; a comment is opened from Code state only when the character at
\* the cursor is not a quote.
C17_TieBreak ==
    /\ (FromCode /\ StartsWith(source, TripleQuote, prev.i))
        => /\ i = prev.i + 3
           /\ output = prev.output \o TripleQuote
           /\ State(Locals) = "InMultilineString"
           /\ ~in_string
           /\ construct = [kind |-> "InMultilineString", at |-> prev.i,
                           out |-> Len(prev.output)]
    /\ (FromCode /\ source[prev.i + 1] = QUOTE)
        => /\ in_string \/ in_multiline
           /\ NoCommentState
           /\ in_string <=> ~StartsWith(source, TripleQuote, prev.i)
    /\ (FromCode /\ ~NoCommentState)
        => /\ source[prev.i + 1] = SLASH
           /\ OpenerAt(source, prev.i)
           /\ ~in_string /\ ~in_multiline

\* Three quotes met in Code state opened a multi-line string and a comment
\* opener is next.
C17_Witness ==
    /\ FromCode
    /\ StartsWith(source, TripleQuote, prev.i)
    /\ in_multiline
    /\ OpenerAt(source, i)


\* -------------------------------------------------------------------- C18
\* The last iteration ran in the given state.
From(state) == prev.i >= 0 /\ State(prev) = state

\* The depth once the scan from the current locals has passed text, which is
\* at the cursor.
DepthPast(text) == RunTo(Locals, i + Len(text)).block_comment_depth

\* In InLineComment only a newline changes the state, in InBlockComment only
\* /* and */ do, and no comment state ever opens a string or a line comment.
Opaque ==
    /\ From("InLineComment")
        => /\ i = prev.i + 1
           /\ ~in_string /\ ~in_multiline /\ block_comment_depth = 0
           /\ in_line_comment <=> source[prev.i + 1] # NL
    /\ From("InBlockComment")
        => /\ ~in_string /\ ~in_multiline /\ ~in_line_comment
           /\ block_comment_depth # prev.block_comment_depth
                <=> \/ StartsWith(source, BlockOpen, prev.i)
                    \/ StartsWith(source, BlockClose, prev.i)
    /\ At("InLineComment", BlockOpen)
        => LET after == RunTo(Locals, i + 2)
           IN  State(after) = "InLineComment" /\ after.block_comment_depth = 0

\* C18 as stated: comments are opaque to string and comment openers, so a */
\* that follows a quote, a backslash or // inside a block comment still
\* decrements the depth, and a /* inside a line comment opens no block comment.
C18_CloseAfterAnything ==
    /\ Opaque
    /\ \A before \in {<<QUOTE>>, <<BSLASH>>, LineOpen} :
           At("InBlockComment", before \o BlockClose)
               => DepthPast(before \o BlockClose) = block_comment_depth - 1

\* C18 as amended: comments are opaque to string and comment openers: a */
\* at the cursor in InBlockComment decrements the depth whatever was read
\* before it, so a */ after a quote, a triple quote or a backslash does; in
\* //*/ inside a block comment the second slash and the star are read as /*
\* and the depth is incremented, leaving the cursor on the last slash; a /*
\* inside a line comment opens no block comment.
C18_CommentsOpaque ==
    /\ Opaque
    /\ At("InBlockComment", BlockClose)
        => Iterate(Locals).block_comment_depth = block_comment_depth - 1
    /\ \A before \in {<<QUOTE>>, TripleQuote, <<BSLASH>>} :
           At("InBlockComment", before \o BlockClose)
               => DepthPast(before \o BlockClose) = block_comment_depth - 1
    /\ At("InBlockComment", LineOpen \o BlockClose)
        => LET after == RunTo(Locals, i + 3)
           IN  /\ after.i = i + 3
               /\ after.block_comment_depth = block_comment_depth + 1

\* Inside a block comment the /* of //*/ has just raised the depth to 2.
C18_Witness ==
    /\ From("InBlockComment")
    /\ prev.i >= 1
    /\ StartsWith(source, LineOpen \o BlockClose, prev.i - 1)
    /\ prev.block_comment_depth = 1
    /\ block_comment_depth = 2


\* -------------------------------------------------------------------- C20
\* The string being scanned, or just closed, has a newline in what was
\* consumed of it.
NewlineInString ==
    /\ Active("InString") \/ JustLeft("InString")
    /\ \E k \in 1..Len(Consumed) : Consumed[k] = NL

\* C20: a newline does not end a single-line string: InString is left only
\* on an unescaped quote or at the end of the input, so after an opening
\* quote with no closing quote on its line every following character, // and
\* /* */ on later lines included, is emitted verbatim and no comment state is
\* entered until the next unescaped quote.
C20_NewlineInString ==
    /\ (From("InString") /\ source[prev.i + 1] = NL)
        => /\ in_string
           /\ i = prev.i + 1
           /\ output = Append(prev.output, NL)
    /\ (From("InString") /\ ~in_string)
        => /\ source[i] = QUOTE
           /\ UnescapedQuote(source, i - 1, construct.at + 1)
    /\ NewlineInString
        => /\ Emitted = Consumed
           /\ NoCommentState
           /\ \A k \in (construct.at + 1)..(i - 2) :
                  ~UnescapedQuote(source, k, construct.at + 1)
    /\ (pc = "returned" /\ in_string)
        => /\ i = n
           /\ SubSeq(result, construct.out + 1, Len(result))
                  = SubSeq(source, construct.at + 1, n)

\* The input ended inside a string whose later line held a comment opener,
\* which was emitted.
C20_Witness ==
    /\ pc = "returned"
    /\ NewlineInString
    /\ in_string
    /\ \E k \in 1..(Len(Emitted) - 1) :
           /\ Emitted[k] = NL
           /\ \E j \in k..(Len(Emitted) - 1) :
                  OpenerAt(Emitted, j)


\* -------------------------------------------------------------------- C19
\* A scan of s that owes nothing to any other call: Code state, depth 0,
\* empty output.
FreshLocals(s) ==
    [source |-> s, i |-> 0, n |-> Len(s), output |-> <<>>,
     in_string |-> FALSE, in_multiline |-> FALSE, in_line_comment |-> FALSE,
     block_comment_depth |-> 0, raised |-> FALSE]

\* What s alone determines as its cleaned content.
CleanOf(s) == ScanLoop(FreshLocals(s)).output

\* The call for f went through without an error.
Processed(f) ==
    /\ Reported("Cleaning", f) \/ Reported("NoComments", f)
    /\ ~\E e \in raised_in : e.path = f

====
